---- MODULE Spec2Model ----
(***************************************************************************)
(* Model of user_profile_manager.py: the ValidatedProperty descriptor, its *)
(* three validators, and the UserProfileManager class with its weak-value  *)
(* cache keyed by id(instance) and its class-level default_last_login.     *)
(*                                                                         *)
(* Objects are told apart by a serial number (the order of construction),  *)
(* which the program never sees; what the program sees is id(instance),    *)
(* which CPython only guarantees to be unique among objects alive at the   *)
(* same time.                                                              *)
(***************************************************************************)
EXTENDS Integers, Sequences, FiniteSets, TLC

\* Number of UserProfileManager objects ever constructed in a run.
MaxEnt == 2

Ent == 1..MaxEnt

\* The addresses the allocator has for UserProfileManager instances;
\* id(instance) is the address of the instance. Two addresses let two
\* instances be alive together and let a later instance get the address of a
\* reclaimed one. Only equality of ids matters to the program, so the
\* addresses are taken into use in increasing order.
Addr == {1, 2}

\* ---------------------------------------------------------------- values
None == [type |-> "NoneType"]
Str(s) == [type |-> "str", chars |-> s]
IntVal(n) == [type |-> "int", n |-> n]
DateTime(t) == [type |-> "datetime", t |-> t]
Obj(e) == [type |-> "UserProfileManager", serial |-> e]

Names == {"username", "email", "last_login"}

\* Timestamps the callers use.
DateTimes == { DateTime(1) }

\* Values that are neither text, nor a timestamp, nor None.
Others == { IntVal(0) }

\* Texts the callers try as a username: empty and non-empty ones.
UsernameTexts == { <<>>, <<"a">>, <<"b", "o", "b">> }

\* Texts the callers try as an email: empty, '@' without '.', '.' without
\* '@', and both.
EmailTexts == { <<>>, <<"a", "@">>, <<"a", ".">>, <<"a", "@", "b", ".", "c">> }

\* Texts the callers try as a last_login.
LoginTexts == { <<"n", "o", "w">> }

\* Values the callers try to assign to each property: None, a value of
\* another type, the texts above and, for last_login, the timestamps.
Inputs(name) ==
    CASE name = "username" ->
           {None} \cup Others \cup { Str(s) : s \in UsernameTexts }
      [] name = "email" ->
           {None} \cup Others \cup { Str(s) : s \in EmailTexts }
      [] name = "last_login" ->
           {None} \cup Others \cup DateTimes \cup { Str(s) : s \in LoginTexts }

\* Values a caller assigns to the class attribute default_last_login.
Defaults == {None} \cup DateTimes

\* isinstance(value, str) / isinstance(value, datetime) / '@' in value
IsStr(v) == v.type = "str"
IsDateTime(v) == v.type = "datetime"
Contains(s, c) == \E i \in 1..Len(s) : s[i] = c

\* The validators return TRUE when they return normally and FALSE when they
\* raise ValueError.
validate_username(v) == ~(~IsStr(v) \/ Len(v.chars) = 0)

\* validate_email with the two membership tests joined by "and".
validate_email_And(v) ==
    IF ~IsStr(v) THEN FALSE
    ELSE ~(~Contains(v.chars, "@") /\ ~Contains(v.chars, "."))

validate_email(v) ==
    IF ~IsStr(v) THEN FALSE
    ELSE ~(~Contains(v.chars, "@") \/ ~Contains(v.chars, "."))

\* validate_last_login without the "value is not None" test.
validate_last_login_NoNone(v) == ~(~IsDateTime(v))

validate_last_login(v) == ~(v # None /\ ~IsDateTime(v))

\* The email descriptor constructed with validate_username.
validator_EmailAsUsername(name, v) ==
    CASE name = "username" -> validate_username(v)
      [] name = "email" -> validate_username(v)
      [] name = "last_login" -> validate_last_login(v)

\* The validator each descriptor of UserProfileManager is constructed with.
validator(name, v) ==
    CASE name = "username" -> validate_username(v)
      [] name = "email" -> validate_email(v)
      [] name = "last_login" -> validate_last_login(v)

\* The exception a validator raises.
ValueError == [type |-> "ValueError"]

VARIABLES
    alive,              \* serials of the instances that are strongly referenced
    constructed,        \* how many instances have been constructed so far
    id,                 \* id(instance) of every instance constructed so far
    values,             \* values[name]: the WeakKeyDictionary of a descriptor
    cache,              \* UserProfileManager._cache (WeakValueDictionary)
    default_last_login, \* UserProfileManager.default_last_login
    raised,             \* the exception the last call raised, None if it returned
    written,            \* history: the value last accepted for <<instance, name>>
    added               \* history: the instances ever passed to add_to_cache

vars ==
    <<alive, constructed, id, values, cache, default_last_login, raised,
      written, added>>

\* dict.get(key) on a mapping modelled as a function: None when key is absent.
DictGet(d, k) == IF k \in DOMAIN d THEN d[k] ELSE None

\* d[k] = v
DictSet(d, k, v) == [x \in DOMAIN d \cup {k} |-> IF x = k THEN v ELSE d[x]]

\* Removal of key k (done by the weak-reference callbacks).
DictDel(d, k) == [x \in DOMAIN d \ {k} |-> d[x]]

Init ==
    /\ alive = {}
    /\ constructed = 0
    /\ id = <<>>
    /\ values = [n \in Names |-> <<>>]
    /\ cache = <<>>
    /\ default_last_login = None
    /\ raised = None
    /\ written = <<>>
    /\ added = {}

\* Addresses used so far (by live or reclaimed instances), and the addresses a
\* new instance may get: one that no live instance occupies, either freed or
\* the next one never used.
UsedAddr == { id[e] : e \in 1..constructed }
FreeAddr ==
    { a \in Addr : /\ \A e \in alive : id[e] # a
                   /\ a \in UsedAddr \/ a = Cardinality(UsedAddr) + 1 }

\* UserProfileManager(): a new instance at a free address; the class defines
\* no __init__, so no property is written.
Construct(a) ==
    /\ constructed < MaxEnt
    /\ a \in FreeAddr
    /\ constructed' = constructed + 1
    /\ alive' = alive \cup {constructed + 1}
    /\ id' = Append(id, a)
    /\ raised' = None
    /\ UNCHANGED <<values, cache, default_last_login, written, added>>

\* __get__ without the class default for last_login.
GetFrom_NoDefault(vals, e, name) == DictGet(vals[name], e)

\* __get__ falling back to the class default whenever the value read is None.
GetFrom_DefaultWhenNone(vals, e, name) ==
    IF name = "last_login" /\ DictGet(vals[name], e) = None
    THEN default_last_login
    ELSE DictGet(vals[name], e)

\* ValidatedProperty.__get__(instance, owner_class), instance not None: the
\* value the read returns when the descriptors' stores are vals. A read
\* assigns nothing and never raises.
GetFrom(vals, e, name) ==
    IF name = "last_login" /\ e \notin DOMAIN vals[name]
    THEN default_last_login
    ELSE DictGet(vals[name], e)

\* The value a read returns in the current state.
GetValue(e, name) == GetFrom(values, e, name)

Get(e, name) ==
    /\ e \in alive
    /\ raised' = None
    /\ UNCHANGED <<alive, constructed, id, values, cache, default_last_login,
                   written, added>>

\* __set__ storing the value before the validator runs.
SetValues_StoreBeforeValidate(e, name, v) ==
    [values EXCEPT ![name] = DictSet(values[name], e, v)]

\* __set__ storing with setdefault: a stored value is never replaced.
SetValues_KeepExisting(e, name, v) ==
    IF validator(name, v) /\ e \notin DOMAIN values[name]
    THEN [values EXCEPT ![name] = DictSet(values[name], e, v)]
    ELSE values

\* One store shared by the three descriptors instead of one store each.
SetValues_SharedStore(e, name, v) ==
    IF validator(name, v)
    THEN [n \in Names |-> DictSet(values[n], e, v)]
    ELSE values

\* ValidatedProperty.__set__(instance, value): the validator runs first and
\* its exception leaves the method before the store is touched.
SetValues(e, name, v) ==
    IF validator(name, v)
    THEN [values EXCEPT ![name] = DictSet(values[name], e, v)]
    ELSE values

SetRaises(name, v) == IF validator(name, v) THEN None ELSE ValueError

Set(e, name, v) ==
    /\ e \in alive
    /\ UNCHANGED <<alive, constructed, id, cache, default_last_login, added>>
    /\ raised' = SetRaises(name, v)
    /\ values' = SetValues(e, name, v)
    /\ written' = IF raised' = ValueError THEN written
                  ELSE DictSet(written, <<e, name>>, v)

\* UserProfileManager.default_last_login = v
SetDefault(v) ==
    /\ v # default_last_login
    /\ default_last_login' = v
    /\ raised' = None
    /\ UNCHANGED <<alive, constructed, id, values, cache, written, added>>

\* add_to_cache keyed by a constant instead of id(instance).
CacheAfterAdd_SharedKey(e) == DictSet(cache, 1, e)

\* UserProfileManager.add_to_cache(instance)
CacheAfterAdd(e) == DictSet(cache, id[e], e)

add_to_cache(e) ==
    /\ e \in alive
    /\ cache' = CacheAfterAdd(e)
    /\ raised' = None
    /\ added' = added \cup {e}
    /\ UNCHANGED <<alive, constructed, id, values, default_last_login, written>>

\* UserProfileManager.get_from_cache(instance_id): the instance the call
\* returns, or None. The call assigns nothing and never raises.
CacheLookup(k) == IF k \in DOMAIN cache THEN Obj(cache[k]) ELSE None

get_from_cache(k) ==
    /\ raised' = None
    /\ UNCHANGED <<alive, constructed, id, values, cache, default_last_login,
                   written, added>>

\* A cache that keeps its entry when the instance is reclaimed.
CacheAfterReclaim_Strong(e) == cache

\* The last strong reference to instance e goes away and the instance is
\* reclaimed: the weak containers drop their entries for it and its address
\* becomes free for later instances.
CacheAfterReclaim(e) ==
    IF id[e] \in DOMAIN cache /\ cache[id[e]] = e
    THEN DictDel(cache, id[e])
    ELSE cache

ValuesAfterReclaim(e) == [n \in Names |-> DictDel(values[n], e)]

Reclaim(e) ==
    /\ e \in alive
    /\ alive' = alive \ {e}
    /\ values' = ValuesAfterReclaim(e)
    /\ cache' = CacheAfterReclaim(e)
    /\ raised' = None
    /\ written' = [p \in { q \in DOMAIN written : q[1] # e } |-> written[p]]
    /\ UNCHANGED <<constructed, id, default_last_login, added>>

Next ==
    \/ \E a \in Addr : Construct(a)
    \/ \E e \in Ent, n \in Names : Get(e, n)
    \/ \E e \in Ent, n \in Names : \E v \in Inputs(n) : Set(e, n, v)
    \/ \E v \in Defaults : SetDefault(v)
    \/ \E e \in Ent : add_to_cache(e)
    \/ \E k \in Addr : get_from_cache(k)
    \/ \E e \in Ent : Reclaim(e)

Spec == Init /\ [][Next]_vars

\* ------------------------------------------------------------ properties
\* What the specification says each property accepts, spelled out
\* independently of the validators above.
Chars(s) == { s[i] : i \in DOMAIN s }
NonEmptyText(v) == v.type = "str" /\ v.chars # <<>>
EmailShaped(v) == v.type = "str" /\ {"@", "."} \subseteq Chars(v.chars)
TimestampOrAbsent(v) == v = None \/ v.type = "datetime"
Accepted(name, v) ==
    CASE name = "username" -> NonEmptyText(v)
      [] name = "email" -> EmailShaped(v)
      [] name = "last_login" -> TimestampOrAbsent(v)

\* What a store holds for an instance: <<value>>, or <<>> when it holds nothing.
StoredIn(vals, e, name) ==
    IF e \in DOMAIN vals[name] THEN <<vals[name][e]>> ELSE <<>>
Stored(e, name) == StoredIn(values, e, name)

\* The value last accepted for a property of an instance, in the same form.
LastWritten(e, name) ==
    IF <<e, name>> \in DOMAIN written THEN <<written[<<e, name>>]>> ELSE <<>>

\* C1: in every state, a write of a value the property does not accept raises
\* ValueError (the specification's ValidationError) and stores nothing: the
\* stores are as before, and a read of the property on the instance after the
\* write returns what it returns before it.
C1_RejectedWriteStoresNothing ==
    \A e \in alive, n \in Names : \A v \in Inputs(n) :
        ~Accepted(n, v) =>
           /\ SetRaises(n, v) = ValueError
           /\ SetValues(e, n, v) = values
           /\ GetFrom(SetValues(e, n, v), e, n) = GetValue(e, n)

\* C1 witness: a write has just been rejected while one instance holds an
\* accepted username and another instance has never been written.
C1_Witness ==
    /\ raised = ValueError
    /\ \E e1, e2 \in alive :
         /\ Stored(e1, "username") # <<>>
         /\ \A n \in Names : Stored(e2, n) = <<>>

\* C2: in every state, a write of any non-empty text to username returns
\* normally and a read of username on that instance then returns the text,
\* whatever was stored before.
C2_UsernameRoundTrip ==
    \A e \in alive : \A v \in Inputs("username") :
        NonEmptyText(v) =>
           /\ SetRaises("username", v) = None
           /\ GetFrom(SetValues(e, "username", v), e, "username") = v

\* C2 witness: two instances hold different usernames after an accepted write.
C2_Witness ==
    /\ raised = None
    /\ \E e1, e2 \in alive :
         /\ GetValue(e1, "username") = Str(<<"a">>)
         /\ GetValue(e2, "username") = Str(<<"b", "o", "b">>)

\* C3: in every state, a write to email returns normally exactly when the
\* value is text with both '@' and '.', and a read then returns it; any other
\* value raises ValueError.
C3_EmailAcceptedIffShaped ==
    \A e \in alive : \A v \in Inputs("email") :
        /\ (SetRaises("email", v) = None) <=> EmailShaped(v)
        /\ SetRaises("email", v) \in {None, ValueError}
        /\ EmailShaped(v) =>
              GetFrom(SetValues(e, "email", v), e, "email") = v

\* C3 witness: an instance holds an accepted email and a write was rejected.
C3_Witness ==
    /\ raised = ValueError
    /\ \E e \in alive : GetValue(e, "email") = Str(<<"a", "@", "b", ".", "c">>)

\* C4: in every state, whatever is stored and whatever the default is, a write
\* of None to last_login returns normally and so does a write of a timestamp
\* (the value is then stored); a write of any other value raises ValueError.
C4_LastLoginAcceptsNoneOrTimestamp ==
    \A e \in alive : \A v \in Inputs("last_login") :
        /\ (SetRaises("last_login", v) = None) <=> TimestampOrAbsent(v)
        /\ SetRaises("last_login", v) \in {None, ValueError}
        /\ TimestampOrAbsent(v) =>
              StoredIn(SetValues(e, "last_login", v), e, "last_login") = <<v>>

\* C4 witness: None is stored as last_login while the class default is a
\* timestamp.
C4_Witness ==
    /\ raised = None
    /\ default_last_login \in DateTimes
    /\ \E e \in alive : Stored(e, "last_login") = <<None>>

\* C5: an instance whose last_login was never written reads the current
\* default_last_login.
C5_NeverWrittenReadsDefault ==
    \A e \in alive :
        <<e, "last_login">> \notin DOMAIN written =>
            GetValue(e, "last_login") = default_last_login

\* C5 witness: the default is a timestamp, and an instance never written and
\* constructed before the default last changed reads it.
C5_Witness ==
    /\ default_last_login \in DateTimes
    /\ \E e1, e2 \in alive :
         /\ e1 # e2
         /\ <<e1, "last_login">> \notin DOMAIN written
         /\ GetValue(e1, "last_login") = default_last_login
         /\ <<e2, "last_login">> \in DOMAIN written

\* C6 as stated: after add_to_cache(e), get_from_cache(id(e)) returns e while
\* e is alive and None in every state after e was reclaimed.
C6_AsStated ==
    \A e \in added :
        CacheLookup(id[e]) = IF e \in alive THEN Obj(e) ELSE None

\* C6 amended: after add_to_cache(e), get_from_cache(id(e)) returns e while e
\* is alive; after e was reclaimed it never returns e: it returns None, or a
\* later instance that was given the same id and was added to the cache.
\* Being in the cache or in the stores never keeps a live instance from being
\* reclaimed.
C6_LookupFollowsLifetime ==
    /\ \A e \in added :
         IF e \in alive
         THEN CacheLookup(id[e]) = Obj(e)
         ELSE \/ CacheLookup(id[e]) = None
              \/ \E e2 \in alive \cap added :
                   /\ e2 > e
                   /\ id[e2] = id[e]
                   /\ CacheLookup(id[e]) = Obj(e2)
    /\ \A e \in alive : ENABLED Reclaim(e)

\* C6 witness: an instance was added and reclaimed, and the lookup of its key
\* now finds nothing while another added instance is still found.
C6_Witness ==
    \E e1 \in added \ alive, e2 \in added \cap alive :
        /\ CacheLookup(id[e1]) = None
        /\ CacheLookup(id[e2]) = Obj(e2)

\* C7: for two instances with distinct keys, the lookup of one's key never
\* returns the other, and adding or reclaiming one leaves the lookup of the
\* other's key as it was.
C7_DistinctKeysDoNotInterfere ==
    [][\A e1, e2 \in 1..constructed :
         id[e1] # id[e2] =>
            /\ CacheLookup(id[e1]) # Obj(e2)
            /\ CacheLookup(id[e1])' # Obj(e2)
            /\ (add_to_cache(e1) \/ Reclaim(e1)) =>
                  CacheLookup(id[e2])' = CacheLookup(id[e2])]_vars

\* C7 witness: two live instances are both found under their own keys.
C7_Witness ==
    \E e1, e2 \in alive :
        /\ e1 # e2
        /\ id[e1] # id[e2]
        /\ CacheLookup(id[e1]) = Obj(e1)
        /\ CacheLookup(id[e2]) = Obj(e2)

\* C8: a store holds a value for an instance only if that value was the last
\* one a write to that property of that instance accepted, and every stored
\* value has the shape the property requires.
C8_StoredValuesWereValidated ==
    \A n \in Names : \A e \in DOMAIN values[n] :
        /\ e \in alive
        /\ <<e, n>> \in DOMAIN written
        /\ written[<<e, n>>] = values[n][e]
        /\ Accepted(n, values[n][e])

\* C8 witness: one instance holds a value in each of the three stores.
C8_Witness ==
    \E e \in alive :
        /\ Stored(e, "username") = <<Str(<<"b", "o", "b">>)>>
        /\ Stored(e, "email") # <<>>
        /\ Stored(e, "last_login") = <<DateTime(1)>>

\* C9: once last_login was written (None included) a read returns the value
\* last written whatever the default is; username and email read as None
\* until they are written, whatever the default is.
C9_DefaultOnlyWhileUnwritten ==
    \A e \in alive :
        /\ <<e, "last_login">> \in DOMAIN written =>
              GetValue(e, "last_login") = written[<<e, "last_login">>]
        /\ \A n \in {"username", "email"} :
              <<e, n>> \notin DOMAIN written => GetValue(e, n) = None

\* C9 witness: None was written to last_login of an instance whose username
\* and email were never written, and the default is a timestamp.
C9_Witness ==
    \E e \in alive :
        /\ <<e, "last_login">> \in DOMAIN written
        /\ written[<<e, "last_login">>] = None
        /\ default_last_login \in DateTimes
        /\ <<e, "username">> \notin DOMAIN written
        /\ <<e, "email">> \notin DOMAIN written

\* C10: in every step, a stored value of a live instance changes only where
\* this step's write was accepted (the one property of the one instance); a
\* write, accepted or rejected, leaves the default and the cache as they were;
\* a step that changes the cache or the default, a rejected write and a read
\* change no stored value.
C10_WriteFrame ==
    [][/\ \A e \in alive \cap alive', n \in Names :
            Stored(e, n)' # Stored(e, n) =>
               /\ LastWritten(e, n)' # LastWritten(e, n)
               /\ LastWritten(e, n)' = Stored(e, n)'
               /\ \A e2 \in alive, n2 \in Names :
                     <<e2, n2>> # <<e, n>> => Stored(e2, n2)' = Stored(e2, n2)
               /\ default_last_login' = default_last_login
               /\ cache' = cache
       /\ ( \/ raised' = ValueError
            \/ \E e \in alive \cap alive', n \in Names :
                  LastWritten(e, n)' # LastWritten(e, n) ) =>
             /\ default_last_login' = default_last_login
             /\ cache' = cache
             /\ alive' = alive
       /\ raised' = ValueError => values' = values
       /\ (cache' # cache /\ alive' = alive) => values' = values
       /\ default_last_login' # default_last_login => values' = values]_vars

\* C10 witness: a write was accepted for one instance while another instance
\* holds values and is in the cache.
C10_Witness ==
    /\ raised = None
    /\ \E e1, e2 \in alive :
         /\ e1 # e2
         /\ Stored(e1, "email") # <<>>
         /\ Stored(e2, "username") # <<>>
         /\ Stored(e2, "email") = <<>>
         /\ CacheLookup(id[e2]) = Obj(e2)
====
